---- MODULE Spec2Model ----
(***************************************************************************)
(* Model of the two programs of the repository:                            *)
(*   - triviaGame/main.py: the console quiz (game, check_answer, ...).     *)
(*   - passwordGenerator/main.py: generate_password_with_charsets, and the *)
(*     handlers of the window (generate_password, copy_to_clipboard).      *)
(*                                                                         *)
(* A Python str is a sequence of characters; a character is a one-letter   *)
(* TLA+ string, except "SUP2", which stands for U+00B2 SUPERSCRIPT TWO.    *)
(***************************************************************************)
EXTENDS Integers, Sequences, FiniteSets, TLC

VARIABLES
    \* ---- triviaGame ----
    questions,          \* the records of questions.json, in file order
    stack,              \* call stack of game() frames, innermost last
    shown,              \* the last print_question output: number and record
    lives_left,         \* the last "You have {lives} lives left." of line 86: <<lives>>
    status,             \* "running" | "finished" | "error" (uncaught exception), "idle"
    ev,                 \* history: which prompt the last input answered, and how
    \* ---- passwordGenerator ----
    selected_sets,      \* argument of generate_password_with_charsets
    length,             \* argument of generate_password_with_charsets
    password,           \* its return value
    pw_pc,              \* "idle" | "call" | "returned"
    \* ---- passwordGenerator, the window ----
    password_length,    \* StringVar of the length entry
    include,            \* the four BooleanVars: numbers, symbols, upper, lower
    generated_password, \* StringVar of the read-only entry
    generate_button,    \* state of the Generate button: "disabled" | "!disabled"
    last                \* history: what the last handler showed, called and raised

quizVars == <<questions, stack, shown, lives_left, status, ev>>
pwVars == <<selected_sets, length, password, pw_pc>>
uiVars == <<password_length, include, generated_password, generate_button, last>>
vars == <<questions, stack, shown, lives_left, status, ev, selected_sets, length, password, pw_pc,
          password_length, include, generated_password, generate_button, last>>

(***************************************************************************)
(* Bounds of the model.                                                    *)
(***************************************************************************)
MaxQuestions == 4       \* records in questions.json
MaxDepth == 2           \* nested game() calls (restarts) explored
MaxLen == 4             \* largest password length explored
AlphaLen == 2           \* characters kept of each class's alphabet

(***************************************************************************)
(* Python str helpers.                                                     *)
(***************************************************************************)
UpperChars == <<"A","B","C","D","E","F","G","H","I","J","K","L","M",
                "N","O","P","Q","R","S","T","U","V","W","X","Y","Z">>
LowerChars == <<"a","b","c","d","e","f","g","h","i","j","k","l","m",
                "n","o","p","q","r","s","t","u","v","w","x","y","z">>
DecimalChars == <<"0","1","2","3","4","5","6","7","8","9">>

Range(s) == { s[i] : i \in DOMAIN s }

IndexOf(c, s) == CHOOSE i \in DOMAIN s : s[i] = c

UpperSet == Range(UpperChars)
DecimalSet == Range(DecimalChars)

\* the lower-case letter of each upper-case letter, the value of each digit
LowerOf == [c \in UpperSet |-> LowerChars[IndexOf(c, UpperChars)]]
DigitValue == [c \in DecimalSet |-> IndexOf(c, DecimalChars) - 1]

\* str.lower(), character by character
LowerChar(c) == IF c \in UpperSet THEN LowerOf[c] ELSE c

Lower(s) == [i \in DOMAIN s |-> LowerChar(s[i])]

\* str.isdigit(): non-empty and every character has the Unicode property
\* Numeric_Type=Digit or Decimal; U+00B2 is such a character.
IsDigit(s) == Len(s) > 0 /\ \A i \in DOMAIN s : s[i] \in DecimalSet \cup {"SUP2"}

\* int(s) accepts decimal characters only; U+00B2 raises ValueError.
IntRaises(s) == \E i \in DOMAIN s : s[i] \notin DecimalSet

RECURSIVE ToInt(_)
ToInt(s) == IF s = <<>> THEN 0
            ELSE ToInt(SubSeq(s, 1, Len(s) - 1)) * 10 + DigitValue[s[Len(s)]]

(***************************************************************************)
(* triviaGame/main.py                                                      *)
(***************************************************************************)
LIVES == 3

\* The records a questions.json is made of in this model.
RecordPool ==
    { [question |-> <<"Q","a">>, options |-> << <<"O","s","l","o">>, <<"R","o","m","e">> >>,
       answer |-> <<"r","o","m","e">>, difficulty |-> <<"e","a","s","y">>],
      [question |-> <<"Q","b">>, options |-> << <<"O","s","l","o">>, <<"R","o","m","e">>, <<"B","o","n","n">> >>,
       answer |-> <<"B","o","n","n">>, difficulty |-> <<"M","e","d","i","u","m">>],
      [question |-> <<"Q","c">>, options |-> << <<"O","s","l","o">>, <<"R","o","m","e">> >>,
       answer |-> <<"O","S","L","O">>, difficulty |-> <<"H","A","R","D">>],
      [question |-> <<"Q","d">>, options |-> << <<"O","s","l","o">>, <<"R","o","m","e">> >>,
       answer |-> <<"O","s","l","o">>, difficulty |-> <<"e","x","p","e","r","t">>] }

Files == UNION { [1..n -> RecordPool] : n \in 0..MaxQuestions }

\* What the user may type at "Enter your answer: ".
AnswerInputs == { <<"1">>, <<"2">>, <<"3">>, <<"0">>, <<"x">>, <<"SUP2">>, <<>> }

\* What the user may type at "Do you want to play again? (y/n): ".
RestartInputs == { <<"y">>, <<"n">>, <<"Y">>, <<"N">>, <<"x">> }

NoShown == [number |-> 0, q |-> 0]

\* The positions i of the file with questions[i]["difficulty"].lower() == d,
\* in file order (one list comprehension of categorize_questions).
RECURSIVE WithDifficulty(_, _, _)
WithDifficulty(file, d, i) ==
    IF i > Len(file) THEN <<>>
    ELSE (IF Lower(file[i].difficulty) = d THEN <<i>> ELSE <<>>)
         \o WithDifficulty(file, d, i + 1)

\* TotalQuestions with the groups concatenated in another order.
TotalQuestionsMediumFirst(file) ==
    WithDifficulty(file, <<"m","e","d","i","u","m">>, 1)
    \o WithDifficulty(file, <<"e","a","s","y">>, 1)
    \o WithDifficulty(file, <<"h","a","r","d">>, 1)

\* categorize_questions and line 58: easy + medium + hard.  A question is
\* referred to by its position in the file.
TotalQuestions(file) ==
    WithDifficulty(file, <<"e","a","s","y">>, 1)
    \o WithDifficulty(file, <<"m","e","d","i","u","m">>, 1)
    \o WithDifficulty(file, <<"h","a","r","d">>, 1)

\* CheckAnswer comparing the option and the answer as they are written.
CheckAnswerCaseSensitive(user_answer, correct_answer, options) ==
    IF ~IsDigit(user_answer) THEN "invalid input"
    ELSE IF IntRaises(user_answer) THEN "ValueError"
    ELSE IF ToInt(user_answer) > Len(options) \/ ToInt(user_answer) < 1 THEN "invalid input"
    ELSE IF options[ToInt(user_answer)] = correct_answer THEN "True"
    ELSE "False"

\* check_answer: "True", "False", "invalid input", or "ValueError" when int()
\* raises.
CheckAnswer(user_answer, correct_answer, options) ==
    IF ~IsDigit(user_answer) THEN "invalid input"
    ELSE IF IntRaises(user_answer) THEN "ValueError"
    ELSE IF ToInt(user_answer) > Len(options) \/ ToInt(user_answer) < 1 THEN "invalid input"
    ELSE IF Lower(options[ToInt(user_answer)]) = Lower(correct_answer) THEN "True"
    ELSE "False"

\* Python truth value of check_answer's result: only False is falsy.
Truthy(v) == v # "False"

\* OutOfLives as "if lives <= 0".
OutOfLivesOrBelow(lives) == lives <= 0

\* line 73: if lives == 0
OutOfLives(lives) == lives = 0

\* RestartLives as game(lives): the losing session's lives handed on.
RestartLivesKept(f) == f.lives

\* line 80: game() is called with no argument, so lives takes its default.
RestartLives(f) == LIVES

Top(s) == s[Len(s)]
SetTop(s, f) == [s EXCEPT ![Len(s)] = f]

\* The answer check of the top frame's current question, as lines 62-68 and
\* 91-92 make it: the answer lower-cased, the input lower-cased by take_answer.
Check(f, input) ==
    LET q == questions[f.total[f.i]]
    IN CheckAnswer(Lower(input), Lower(q.answer), q.options)

RECURSIVE NextIteration(_), Return(_), AfterIf(_)

\* line 61: the for loop takes the next question, prints it (line 66) and
\* blocks in take_answer (line 67); with none left, game returns.
NextIteration(m) ==
    LET f == Top(m.stack)
    IN IF f.i < Len(f.total)
       THEN LET q == f.total[f.i + 1]
                g == [f EXCEPT !.i = f.i + 1, !.pc = "answer", !.asked = Append(@, q)]
            IN [m EXCEPT !.stack = SetTop(m.stack, g),
                         !.shown = [number |-> f.question_number, q |-> q]]
       ELSE Return(m)

\* game returns: to the interpreter (the program ends) or to the game frame
\* that called it at line 80, which goes on at line 89.
Return(m) ==
    LET rest == SubSeq(m.stack, 1, Len(m.stack) - 1)
    IN IF rest = <<>>
       THEN [m EXCEPT !.stack = <<>>, !.status = "finished"]
       ELSE AfterIf([m EXCEPT !.stack = rest])

\* lines 89-95: while is_correct == "invalid input": print the question again
\* and block in take_answer (line 91); else: question_number += 1.
AfterIf(m) ==
    LET f == Top(m.stack)
    IN IF f.is_correct = "invalid input"
       THEN [m EXCEPT !.stack = SetTop(m.stack, [f EXCEPT !.pc = "reanswer"]),
                      !.shown = [number |-> f.question_number, q |-> f.total[f.i]]]
       ELSE NextIteration([m EXCEPT !.stack =
                SetTop(m.stack, [f EXCEPT !.question_number = @ + 1])])

\* game(lives), lines 57-61: a new frame, and the first iteration.
Enter(m, file, lives) ==
    LET f == [lives |-> lives, total |-> TotalQuestions(file), i |-> 0,
              question_number |-> 1, is_correct |-> "unset", pc |-> "loop",
              asked |-> <<>>]
    IN NextIteration([m EXCEPT !.stack = Append(m.stack, f)])

\* An uncaught exception unwinds every frame and ends the program.
Raise(m) == [m EXCEPT !.stack = <<>>, !.status = "error"]


Machine == [stack |-> stack, shown |-> shown, lives_left |-> lives_left, status |-> status]

Becomes(m) == /\ stack' = m.stack
              /\ shown' = m.shown
              /\ lives_left' = m.lives_left
              /\ status' = m.status

\* lines 67-87: the answer to the first prompt of a question.
AnswerStep(m, input) ==
    LET f == Top(m.stack)
        r == Check(f, input)
    IN IF r = "ValueError" THEN Raise(m)
       ELSE IF ~Truthy(r)
       THEN LET g == [f EXCEPT !.is_correct = r, !.lives = @ - 1,
                               !.question_number = @ + 1]
            IN IF OutOfLives(g.lives)
               THEN [m EXCEPT !.stack = SetTop(m.stack, [g EXCEPT !.pc = "again"])]
               ELSE NextIteration([m EXCEPT !.stack = SetTop(m.stack, g),
                                            !.lives_left = <<g.lives>>])
       ELSE AfterIf([m EXCEPT !.stack = SetTop(m.stack, [f EXCEPT !.is_correct = r])])

\* lines 91-92 and back to the while of line 89.
ReanswerStep(m, input) ==
    LET f == Top(m.stack)
        r == Check(f, input)
    IN IF r = "ValueError" THEN Raise(m)
       ELSE AfterIf([m EXCEPT !.stack = SetTop(m.stack, [f EXCEPT !.is_correct = r])])

\* Recognized accepting whatever was typed.
RecognizedAlways(again) == TRUE

\* line 75: again in ["y", "n"]
Recognized(again) == again \in { <<"y">>, <<"n">> }

\* lines 74-83: the answer to "Do you want to play again? (y/n): ".
AgainStep(m, input) ==
    LET f == Top(m.stack)
        again == Lower(input)
    IN IF ~Recognized(again)
       THEN [m EXCEPT !.stack = SetTop(m.stack, [f EXCEPT !.pc = "again_retry"])]
       ELSE IF again = <<"y">>
       THEN Enter([m EXCEPT !.stack = SetTop(m.stack, [f EXCEPT !.pc = "in_game"])],
                  questions, RestartLives(f))
       ELSE Return(m)

(***************************************************************************)
(* The history variable ev tells, in the words of the specification, what  *)
(* the input just read was: an answer to a question (first prompt or       *)
(* re-prompt) or a reply to the game-over prompt, and of which kind.  No   *)
(* action reads it.                                                        *)
(***************************************************************************)
\* The answer read is a decimal integer within [1, number of options] of q.
IsDecimalInteger(s) == s # <<>> /\ \A i \in DOMAIN s : s[i] \in DecimalSet

InRangeAnswer(input, q) ==
    IsDecimalInteger(input) /\ ToInt(input) >= 1 /\ ToInt(input) <= Len(q.options)

\* A graded mismatch: an in-range answer whose option is not the answer.
GradedMismatch(input, q) ==
    InRangeAnswer(input, q) /\ Lower(q.options[ToInt(input)]) # Lower(q.answer)

\* The question on display, the one the next answer is for.
Displayed == questions[shown.q]

AnswerKind(input) ==
    IF ~InRangeAnswer(input, Displayed) THEN "invalid"
    ELSE IF GradedMismatch(input, Displayed) THEN "mismatch"
    ELSE "match"

AgainKind(input) ==
    IF Lower(input) = <<"y">> THEN "y"
    ELSE IF Lower(input) = <<"n">> THEN "n"
    ELSE "other"

\* The program blocked in take_answer at line 67 reads `input`.
AnswerWith(input) ==
    /\ status = "running"
    /\ Top(stack).pc = "answer"
    /\ Becomes(AnswerStep(Machine, input))
    /\ ev' = [at |-> "answer", kind |-> AnswerKind(input)]
    /\ UNCHANGED <<questions, pwVars, uiVars>>

\* The program blocked in take_answer at line 91 reads `input`.
ReanswerWith(input) ==
    /\ status = "running"
    /\ Top(stack).pc = "reanswer"
    /\ Becomes(ReanswerStep(Machine, input))
    /\ ev' = [at |-> "answer", kind |-> AnswerKind(input)]
    /\ UNCHANGED <<questions, pwVars, uiVars>>

\* The program blocked in input at line 74 or 78 reads `input`.  A restart
\* is explored while fewer than MaxDepth game() calls are active.
AgainWith(input) ==
    /\ status = "running"
    /\ Top(stack).pc \in {"again", "again_retry"}
    /\ Lower(input) = <<"y">> => Len(stack) < MaxDepth
    /\ Becomes(AgainStep(Machine, input))
    /\ ev' = [at |-> "again", kind |-> AgainKind(input)]
    /\ UNCHANGED <<questions, pwVars, uiVars>>

Answer == \E input \in AnswerInputs : AnswerWith(input)

Reanswer == \E input \in AnswerInputs : ReanswerWith(input)

Again == \E input \in RestartInputs : AgainWith(input)

PwIdle ==
    /\ selected_sets = <<>>
    /\ length = 0
    /\ password = <<>>
    /\ pw_pc = "idle"

\* No handler of the window has run.
NoHandler == [handler |-> "none", boxes |-> <<>>, clipboard |-> <<>>,
              raised |-> "none", generated |-> FALSE]

\* lines 200-207: the window as it is built, no key pressed yet.
UiIdle ==
    /\ password_length = <<>>
    /\ include = <<TRUE, FALSE, TRUE, TRUE>>
    /\ generated_password = <<>>
    /\ generate_button = "!disabled"
    /\ last = NoHandler

\* __main__: game(LIVES)
Init ==
    /\ questions \in Files
    /\ LET m == Enter([stack |-> <<>>, shown |-> NoShown, lives_left |-> <<>>,
                        status |-> "running"], questions, LIVES)
       IN /\ stack = m.stack
          /\ shown = m.shown
          /\ lives_left = m.lives_left
          /\ status = m.status
    /\ ev = [at |-> "start", kind |-> "none"]
    /\ PwIdle
    /\ UiIdle

Next == Answer \/ Reanswer \/ Again

Spec == Init /\ [][Next]_vars

(***************************************************************************)
(* passwordGenerator/main.py                                               *)
(***************************************************************************)
Prefix(s, n) == SubSeq(s, 1, IF n < Len(s) THEN n ELSE Len(s))

\* string.digits, string.punctuation, string.ascii_uppercase and
\* string.ascii_lowercase, each cut to its first AlphaLen characters.
\* "DQUOTE", "BACKSLASH" and "BACKTICK" stand for U+0022, U+005C and U+0060.
NUMBERS == Prefix(DecimalChars, AlphaLen)
SYMBOLS == Prefix(<<"!", "DQUOTE", "#", "$", "%", "&", "'", "(", ")", "*", "+", ",", "-",
                    ".", "/", ":", ";", "<", "=", ">", "?", "@", "[", "BACKSLASH", "]", "^",
                    "_", "BACKTICK", "{", "|", "}", "~">>, AlphaLen)
UPPERCASE_LETTERS == Prefix(UpperChars, AlphaLen)
LOWERCASE_LETTERS == Prefix(LowerChars, AlphaLen)

\* get_active_character_sets: the alphabets whose checkbox is checked, in the
\* order of the preferences dict.  pref[i] is the i-th checkbox.
RECURSIVE Checked(_, _, _)
Checked(sets, pref, i) ==
    IF i > Len(sets) THEN <<>>
    ELSE (IF pref[i] THEN <<sets[i]>> ELSE <<>>) \o Checked(sets, pref, i + 1)

ActiveCharacterSets(pref) ==
    Checked(<<NUMBERS, SYMBOLS, UPPERCASE_LETTERS, LOWERCASE_LETTERS>>, pref, 1)

\* "".join(selected_sets), line 102
RECURSIVE Join(_)
Join(sets) == IF sets = <<>> THEN <<>> ELSE Head(sets) \o Join(Tail(sets))

\* AllChars as the pool of all four classes, selected or not.
AllCharsOfEveryClass(sets) ==
    Join(<<NUMBERS, SYMBOLS, UPPERCASE_LETTERS, LOWERCASE_LETTERS>>)

AllChars(sets) == Join(sets)

\* line 101: one random.choice per selected set: every list it may produce
RequiredChars(sets) ==
    { r \in [1..Len(sets) -> Range(Join(sets))] : \A i \in 1..Len(sets) : r[i] \in Range(sets[i]) }

\* RemainingCount as k=length.
RemainingCountFull(sets, len) == len

\* line 103: k of random.choices
RemainingCount(sets, len) == len - Len(sets)

\* line 103: random.choices(all_chars, k=...): every list it may produce
RemainingChars(sets, len) == [1..RemainingCount(sets, len) -> Range(AllChars(sets))]

\* line 105: random.shuffle leaves the list in some order p of its positions
Shuffled(list, p) == [i \in 1..Len(list) |-> list[p[i]]]

\* generate_password_with_charsets(selected_sets, length), lines 101-106
GeneratePasswordWithCharsets ==
    /\ pw_pc = "call"
    /\ \E required_chars \in RequiredChars(selected_sets),
          remaining_chars \in RemainingChars(selected_sets, length) :
          LET list == required_chars \o remaining_chars
          IN \E p \in Permutations(1..Len(list)) : password' = Shuffled(list, p)
    /\ pw_pc' = "returned"
    /\ UNCHANGED <<selected_sets, length, quizVars, uiVars>>

QuizIdle ==
    /\ questions = <<>>
    /\ stack = <<>>
    /\ shown = NoShown
    /\ lives_left = <<>>
    /\ status = "idle"
    /\ ev = [at |-> "start", kind |-> "none"]

\* A call of generate_password_with_charsets with some checked classes and a
\* length that is at least their number.
PwInit ==
    /\ \E pref \in [1..4 -> BOOLEAN] :
          /\ \E i \in 1..4 : pref[i]
          /\ selected_sets = ActiveCharacterSets(pref)
    /\ length \in Len(selected_sets)..MaxLen
    /\ password = <<>>
    /\ pw_pc = "call"
    /\ QuizIdle
    /\ UiIdle

PwNext == GeneratePasswordWithCharsets

PwSpec == PwInit /\ [][PwNext]_vars


(***************************************************************************)
(* passwordGenerator/main.py: the window.                                  *)
(***************************************************************************)
MIN_PASSWORD_LENGTH == 8
MAX_PASSWORD_LENGTH == 128

SUCCESS_MESSAGE_COPY == "Password copied to clipboard."
ERROR_MESSAGE_NO_PASSWORD == "Generate a password first to copy it to the clipboard."
ERROR_MESSAGE_INVALID_LENGTH == "The password length must be a positive number."
ERROR_MESSAGE_TOO_LARGE == "The password length must be at most 128 characters."
ERROR_MESSAGE_MIN_LENGTH == "The password must be at least 8 characters long."
ERROR_MESSAGE_NO_CHARSETS == "Please select at least one character set."
ERROR_MESSAGE_GROUP_MISMATCH ==
    "Password length must be at least as many as the selected character groups."
ERROR_MESSAGE_NO_LENGTH == "Please provide a valid password length."
ERROR_MESSAGE_CLIPBOARD == "Failed to copy password to clipboard. Error: ..."

\* show_error_message(title, message) and messagebox.showinfo(title, message)
ShowError(title, message) == [box |-> "showerror", title |-> title, message |-> message]
ShowInfo(title, message) == [box |-> "showinfo", title |-> title, message |-> message]

\* str.strip(), for the one whitespace character of this model
RECURSIVE Strip(_)
Strip(s) ==
    IF s = <<>> THEN s
    ELSE IF Head(s) = " " THEN Strip(Tail(s))
    ELSE IF s[Len(s)] = " " THEN Strip(SubSeq(s, 1, Len(s) - 1))
    ELSE s

\* What the user may type into the length entry.
LengthInputs ==
    { <<>>, <<" ">>, <<"x">>, <<"0">>, <<"3">>, <<"7">>, <<" ", "8", " ">>,
      <<"1", "2", "8">>, <<"1", "2", "9">>, <<"SUP2">> }

\* sum(map(bool, selected)), line 65
RECURSIVE CountChecked(_)
CountChecked(pref) ==
    IF pref = <<>> THEN 0
    ELSE (IF Head(pref) THEN 1 ELSE 0) + CountChecked(Tail(pref))

\* get_min_password_length
GetMinPasswordLength(pref) ==
    IF MIN_PASSWORD_LENGTH >= CountChecked(pref) THEN MIN_PASSWORD_LENGTH
    ELSE CountChecked(pref)

\* BelowMinimum that lets every length through.
BelowMinimumNever(length_int, min_length) == FALSE

\* line 82
BelowMinimum(length_int, min_length) == length_int < min_length

\* AboveMaximum that refuses the maximum itself.
AboveMaximumOrEqual(length_int) == length_int >= MAX_PASSWORD_LENGTH

\* line 85
AboveMaximum(length_int) == length_int > MAX_PASSWORD_LENGTH

\* is_password_length_valid: "True", or the message of the error box shown
\* before it returns False, or "ValueError" when int() raises.
IsPasswordLengthValid(length_input, min_length) ==
    IF ~IsDigit(length_input) THEN ERROR_MESSAGE_INVALID_LENGTH
    ELSE IF IntRaises(length_input) THEN "ValueError"
    ELSE IF ~(ToInt(length_input) > 0) THEN ERROR_MESSAGE_INVALID_LENGTH
    ELSE IF BelowMinimum(ToInt(length_input), min_length) THEN ERROR_MESSAGE_MIN_LENGTH
    ELSE IF AboveMaximum(ToInt(length_input)) THEN ERROR_MESSAGE_TOO_LARGE
    ELSE "True"

\* generate_password_with_charsets at the lengths of the window, where the
\* outcomes are too many to list: of those PwSpec lists, the two in which
\* every random.choice takes the first character and random.shuffle leaves
\* the list as it is, or every choice takes the last character and the
\* shuffle reverses the list.
ComposePassword(sets, len, pick) ==
    LET Choice(seq) == IF pick = "first" THEN seq[1] ELSE seq[Len(seq)]
        required_chars == [i \in 1..Len(sets) |-> Choice(sets[i])]
        remaining_chars == [j \in 1..RemainingCount(sets, len) |-> Choice(AllChars(sets))]
        list == required_chars \o remaining_chars
    IN Shuffled(list, [i \in 1..Len(list) |->
                          IF pick = "first" THEN i ELSE Len(list) + 1 - i])

\* update_generate_button_state
ButtonState(pref) ==
    IF ActiveCharacterSets(pref) # <<>> THEN "!disabled" ELSE "disabled"

\* generate_password up to line 129: what it shows, whether it raises, and
\* the arguments of the call of line 131 if it gets there.
GeneratePasswordChecks(text, pref) ==
    LET length_input == Strip(text)
        min_length == GetMinPasswordLength(pref)
        valid == IsPasswordLengthValid(length_input, min_length)
        sets == ActiveCharacterSets(pref)
        Rejected(message) == [boxes |-> <<ShowError("Error", message)>>,
                              raised |-> "none", call |-> <<>>]
    IN IF length_input = <<>> THEN Rejected(ERROR_MESSAGE_NO_LENGTH)
       ELSE IF valid = "ValueError"
            THEN [boxes |-> <<>>, raised |-> "ValueError", call |-> <<>>]
       ELSE IF valid # "True" THEN Rejected(valid)
       ELSE IF sets = <<>> THEN Rejected(ERROR_MESSAGE_NO_CHARSETS)
       ELSE IF ToInt(length_input) < Len(sets) THEN Rejected(ERROR_MESSAGE_GROUP_MISMATCH)
       ELSE [boxes |-> <<>>, raised |-> "none", call |-> <<sets, ToInt(length_input)>>]

\* The user types into the length entry (line 159); the trace of line 185 runs
\* update_generate_button_state.
TypeLength(text) ==
    /\ password_length' = text
    /\ generate_button' = ButtonState(include)
    /\ last' = NoHandler
    /\ UNCHANGED <<include, generated_password, pwVars, quizVars>>

\* The user clicks the i-th checkbox; the traces of lines 186-189 run
\* update_generate_button_state.
Toggle(i) ==
    /\ include' = [include EXCEPT ![i] = ~include[i]]
    /\ generate_button' = ButtonState(include')
    /\ last' = NoHandler
    /\ UNCHANGED <<password_length, generated_password, pwVars, quizVars>>

\* generate_password, run by the Generate button (line 177), which must be
\* enabled, or by the Return key (line 184), which need not.  An exception
\* raised in it goes to Tk's report_callback_exception: a traceback on
\* stderr, no box, and the window lives on.
GeneratePassword ==
    /\ \E via \in {"button", "Return"} : via = "button" => generate_button = "!disabled"
    /\ LET c == GeneratePasswordChecks(password_length, include)
       IN IF c.call = <<>>
          THEN /\ last' = [handler |-> "generate_password", boxes |-> c.boxes,
                           clipboard |-> <<>>, raised |-> c.raised, generated |-> FALSE]
               /\ UNCHANGED <<generated_password, pwVars>>
          ELSE /\ selected_sets' = c.call[1]
               /\ length' = c.call[2]
               /\ \E pick \in {"first", "last"} :
                     password' = ComposePassword(c.call[1], c.call[2], pick)
               /\ pw_pc' = "returned"
               /\ generated_password' = password'
               /\ last' = [handler |-> "generate_password", boxes |-> c.boxes,
                           clipboard |-> <<>>, raised |-> c.raised, generated |-> TRUE]
    /\ UNCHANGED <<password_length, include, generate_button, quizVars>>

\* HasPassword that takes the empty string for a password too.
HasPasswordAlways(pw) == TRUE

\* line 137: if password
HasPassword(pw) == pw # <<>>

\* lines 139-141: the calls on root, in order
RootCalls(pw) ==
    << [call |-> "clipboard_clear", text |-> <<>>],
       [call |-> "clipboard_append", text |-> pw],
       [call |-> "update", text |-> <<>>] >>

\* copy_to_clipboard; any of the calls on root may raise, which line 143
\* catches: last.clipboard lists the calls that were completed.
CopyToClipboard ==
    /\ IF HasPassword(generated_password)
       THEN \E done \in 0..Len(RootCalls(generated_password)) :
               last' = [handler |-> "copy_to_clipboard",
                        boxes |-> IF done = Len(RootCalls(generated_password))
                                  THEN <<ShowInfo("Success", SUCCESS_MESSAGE_COPY)>>
                                  ELSE <<ShowError("Clipboard Error", ERROR_MESSAGE_CLIPBOARD)>>,
                        clipboard |-> SubSeq(RootCalls(generated_password), 1, done),
                        raised |-> "none", generated |-> FALSE]
       ELSE last' = [handler |-> "copy_to_clipboard",
                     boxes |-> <<ShowError("Error", ERROR_MESSAGE_NO_PASSWORD)>>,
                     clipboard |-> <<>>, raised |-> "none", generated |-> FALSE]
    /\ UNCHANGED <<password_length, include, generated_password, generate_button,
                   pwVars, quizVars>>

\* lines 194-208: the window is built and root.mainloop() waits for events.
UiInit == UiIdle /\ PwIdle /\ QuizIdle

UiNext ==
    \/ \E text \in LengthInputs : TypeLength(text)
    \/ \E i \in 1..4 : Toggle(i)
    \/ GeneratePassword
    \/ CopyToClipboard

UiSpec == UiInit /\ [][UiNext]_vars

(***************************************************************************)
(* Properties of generate_password_with_charsets (PwSpec).                 *)
(***************************************************************************)

\* C1: the returned password has exactly `length` characters and holds at
\* least one character of every selected class, whatever was drawn and
\* however the list was shuffled.
C1_LengthAndEveryClass ==
    pw_pc = "returned" =>
        /\ Len(password) = length
        /\ \A i \in DOMAIN selected_sets :
              \E j \in DOMAIN password : password[j] \in Range(selected_sets[i])

\* C1 witness: a returned password of several classes with filler characters
\* whose first character is not of the first selected class.
C1_Witness ==
    /\ pw_pc = "returned"
    /\ Len(selected_sets) >= 2
    /\ length > Len(selected_sets)
    /\ password[1] \notin Range(selected_sets[1])

\* C2: every character of the returned password is of the union of the
\* selected classes' alphabets.
C2_OnlySelectedClasses ==
    pw_pc = "returned" =>
        \A j \in DOMAIN password :
            \E i \in DOMAIN selected_sets : password[j] \in Range(selected_sets[i])

\* C2 witness: digits alone selected, and a password of MaxLen digits returned.
C2_Witness ==
    /\ pw_pc = "returned"
    /\ selected_sets = <<NUMBERS>>
    /\ Len(password) = MaxLen
    /\ \E j \in DOMAIN password : password[j] # password[1]

(***************************************************************************)
(* Properties of the quiz (Spec).  The vocabulary of the claims:           *)
(***************************************************************************)

\* The game-over prompt is waiting for its y/n.
AtPrompt(s) == s # <<>> /\ Top(s).pc \in {"again", "again_retry"}

\* The presentation order: easy before medium before hard, file order within.
Rank(rec) ==
    LET d == Lower(rec.difficulty)
    IN IF d = <<"e","a","s","y">> THEN 1
       ELSE IF d = <<"m","e","d","i","u","m">> THEN 2
       ELSE IF d = <<"h","a","r","d">> THEN 3
       ELSE 0

Ranks(file) == [i \in DOMAIN file |-> Rank(file[i])]

\* With r the ranks of the records of the file:
Playable(r) == { i \in DOMAIN r : r[i] > 0 }

Before(r, i, j) == r[i] < r[j] \/ (r[i] = r[j] /\ i < j)

IsFirstInOrder(file, i) ==
    LET r == Ranks(file)
    IN i \in Playable(r) /\ \A j \in Playable(r) : ~Before(r, j, i)

IsLastInOrder(file, i) ==
    LET r == Ranks(file)
    IN i \in Playable(r) /\ \A j \in Playable(r) : ~Before(r, i, j)

\* `asked` is a beginning of the presentation order of the file.
InOrder(r, asked) ==
    /\ \A a \in DOMAIN asked : asked[a] \in Playable(r)
    /\ \A a, b \in DOMAIN asked : a < b => Before(r, asked[a], asked[b])
    /\ \A a \in DOMAIN asked : \A j \in Playable(r) :
          Before(r, j, asked[a]) => \E b \in 1..(a - 1) : asked[b] = j

\* The step just taken read an answer to a question, of the given kind.
Answered(kind) == ev'.at = "answer" /\ ev'.kind = kind

\* C3: every graded mismatch, on the first prompt or on a re-prompt, takes
\* exactly one life, and the session then goes on to the next question (or to
\* the game-over prompt).
C3_MismatchTakesOneLife ==
    [][(Answered("mismatch") /\ Len(stack') >= Len(stack))
       => LET d == Len(stack)
          IN /\ stack'[d].lives = stack[d].lives - 1
             /\ stack'[d].i = stack[d].i + 1 \/ AtPrompt(stack')]_vars

\* C4: an answer that is not a decimal integer in range changes no lives and
\* does not advance: the same question, with the same number, is shown again
\* and the program waits for another answer to it.
C4_InvalidAnswerReprompts ==
    [][Answered("invalid")
       => /\ status' = "running"
          /\ Len(stack') = Len(stack)
          /\ Top(stack').lives = Top(stack).lives
          /\ Top(stack').i = Top(stack).i
          /\ Top(stack').pc = "reanswer"
          /\ shown' = shown]_vars

\* C5: the lives of every session, the running one and those that started a
\* restart, are never negative, and no negative number of lives is announced.
C5_LivesNeverNegative ==
    /\ \A k \in DOMAIN stack : stack[k].lives >= 0
    /\ \A k \in DOMAIN lives_left : lives_left[k] >= 0

\* C6: once "n" is answered at the game-over prompt the program has ended: no
\* question is shown and no input is read any more.
C6_NoEndsTheProgram == (ev.at = "again" /\ ev.kind = "n") => status = "finished"

\* C7: when the last question of the order is graded and the session then
\* still has lives, the quiz has ended: no further question is shown.
C7_LastQuestionEndsTheQuiz ==
    [][(/\ Answered("match") \/ Answered("mismatch")
        /\ IsLastInOrder(questions, shown.q)
        /\ Top(stack).lives - (IF Answered("mismatch") THEN 1 ELSE 0) > 0)
       => status' = "finished"]_vars

\* C8: the game-over prompt appears exactly when a graded mismatch brings the
\* session's lives to 0, at once and before any other question is shown, and
\* it is never waiting while the session's lives are not 0.
C8_PromptExactlyAtZero ==
    [][/\ ev'.at = "answer"
          => LET d == Len(stack)
                 toZero == /\ Answered("mismatch")
                           /\ Len(stack') >= d
                           /\ stack[d].lives > 0
                           /\ stack'[d].lives = 0
             IN /\ toZero <=> AtPrompt(stack')
                /\ toZero => (Len(stack') = d /\ shown' = shown)
       /\ AtPrompt(stack') => Top(stack').lives = 0]_vars

\* C8 witness: the first session at the prompt after three questions, each
\* answered wrongly at its first prompt.
C8_Witness ==
    /\ Len(stack) = 1
    /\ AtPrompt(stack)
    /\ Top(stack).lives = 0
    /\ Top(stack).i = LIVES
    /\ Top(stack).question_number = LIVES + 1

\* C9: "y" at the game-over prompt starts a new session, on top of the one
\* that lost, with LIVES lives, and it shows, as question number 1, the first
\* question of the order.
C9_RestartIsFresh ==
    (ev.at = "again" /\ ev.kind = "y")
    => /\ Len(stack) >= 2
       /\ stack[Len(stack) - 1].pc = "in_game"
       /\ Top(stack).lives = LIVES
       /\ Top(stack).pc = "answer"
       /\ Top(stack).asked = <<shown.q>>
       /\ shown.number = 1
       /\ IsFirstInOrder(questions, shown.q)

\* C9 witness: a restarted session at its first question, the session that
\* lost waiting below it with no lives.
C9_Witness ==
    /\ ev = [at |-> "again", kind |-> "y"]
    /\ Len(stack) = 2
    /\ stack[1].pc = "in_game"
    /\ stack[1].lives = 0
    /\ stack[2].lives = LIVES
    /\ shown.number = 1
    /\ Len(stack[1].asked) > LIVES

\* C10: in each session the questions shown are a beginning of the order easy,
\* medium, hard (compared in lower case), file order within a group, records
\* of another difficulty never; and when the program ends because the loop
\* ran out of questions, the last question shown was the last of that order.
C10_PresentationOrder ==
    /\ \A k \in DOMAIN stack : InOrder(Ranks(questions), stack[k].asked)
    /\ (status = "finished" /\ ev.at = "answer") => IsLastInOrder(questions, shown.q)

\* C10 witness: a session that has shown an easy, a medium and a hard question
\* of a file that holds them in another order, with a record of another
\* difficulty among them.
C10_Witness ==
    \E k \in DOMAIN stack :
        LET asked == stack[k].asked
        IN /\ Len(asked) = 3
           /\ Rank(questions[asked[1]]) = 1
           /\ Rank(questions[asked[2]]) = 2
           /\ Rank(questions[asked[3]]) = 3
           /\ asked[1] > asked[2]
           /\ asked[2] > asked[3]
           /\ \E i \in DOMAIN questions : Rank(questions[i]) = 0

\* The position, counted from 1, of question i in the presentation order.
PositionInOrder(file, i) ==
    LET r == Ranks(file)
    IN Cardinality({ j \in Playable(r) : Before(r, j, i) }) + 1

\* C13: a graded match takes no life and never leads to the game-over prompt;
\* the session shows the question that follows in the order, or, the question
\* having been the last of the order, its loop is over.
C13_MatchKeepsLives ==
    [][Answered("match")
       => LET d == Len(stack)
          IN /\ status' # "error"
             /\ ~AtPrompt(stack')
             /\ IF Len(stack') >= d
                THEN /\ stack'[d].lives = stack[d].lives
                     /\ stack'[d].pc = "answer"
                     /\ PositionInOrder(questions, shown'.q)
                           = PositionInOrder(questions, shown.q) + 1
                ELSE IsLastInOrder(questions, shown.q)]_vars

\* C13 witness: the second question on display after a match on the first,
\* all lives kept.
C13_Witness ==
    /\ ev = [at |-> "answer", kind |-> "match"]
    /\ Len(stack) = 1
    /\ Top(stack).pc = "answer"
    /\ Top(stack).lives = LIVES
    /\ Len(Top(stack).asked) = 2

\* C14: the program stops only at a terminal condition: the questions of the
\* sequence are used up, or the restart was declined; no outcome of an answer
\* ends the loop before that.
C14_StopsOnlyAtTerminalCondition ==
    status # "running"
    => /\ status = "finished"
       /\ \/ ev.at = "again" /\ ev.kind = "n"
          \/ ev.at = "answer" /\ IsLastInOrder(questions, shown.q)
          \/ ev.at = "start" /\ Playable(Ranks(questions)) = {}

\* C15: a reply to the game-over prompt that is neither "y" nor "n" in lower
\* case neither restarts nor ends the program and changes nothing of the quiz:
\* the prompt waits again.
C15_OtherReplyAsksAgain ==
    [][(ev'.at = "again" /\ ev'.kind = "other")
       => /\ status' = "running"
          /\ Len(stack') = Len(stack)
          /\ AtPrompt(stack')
          /\ \A k \in DOMAIN stack :
                stack'[k] = [stack[k] EXCEPT !.pc = stack'[k].pc]
          /\ \A k \in 1..(Len(stack) - 1) : stack'[k].pc = stack[k].pc
          /\ shown' = shown
          /\ lives_left' = lives_left
          /\ questions' = questions]_vars

\* C15 witness: the prompt repeated after such a reply.
C15_Witness ==
    /\ ev = [at |-> "again", kind |-> "other"]
    /\ AtPrompt(stack)
    /\ Top(stack).pc = "again_retry"
    /\ Top(stack).lives = 0

\* C19: the number shown with a question is the position of the question in
\* the presentation order.
C19_NumberIsPosition ==
    shown # NoShown => shown.number = PositionInOrder(questions, shown.q)

(***************************************************************************)
(* Properties of the window's handlers (UiSpec).  last tells which handler  *)
(* ran last; generate_password leaves the length entry and the checkboxes  *)
(* as they were when it read them.                                         *)
(***************************************************************************)
\* The trimmed text is a decimal number L, n classes are checked, and
\* n >= 1 and max(MIN_PASSWORD_LENGTH, n) <= L <= MAX_PASSWORD_LENGTH.
LengthAccepted(text, pref) ==
    LET t == Strip(text)
        n == CountChecked(pref)
    IN /\ IsDecimalInteger(t)
       /\ n >= 1
       /\ ToInt(t) >= MIN_PASSWORD_LENGTH
       /\ ToInt(t) >= n
       /\ ToInt(t) <= MAX_PASSWORD_LENGTH

\* C11: generate_password stores a new password exactly when the trimmed
\* length is a decimal number L with max(8, n) <= L <= 128 and n >= 1 classes
\* are checked; the password is the result of a call of
\* generate_password_with_charsets with those n classes and that L, and every
\* such call has 1 <= n <= L and 8 <= L <= 128.
C11_GeneratesIffAccepted ==
    /\ last.handler = "generate_password"
       => (last.generated <=> LengthAccepted(password_length, include))
    /\ last.generated
       => /\ pw_pc = "returned"
          /\ generated_password = password
          /\ selected_sets = ActiveCharacterSets(include)
          /\ length = ToInt(Strip(password_length))
    /\ pw_pc = "returned"
       => /\ 1 <= Len(selected_sets)
          /\ Len(selected_sets) <= length
          /\ MIN_PASSWORD_LENGTH <= length
          /\ length <= MAX_PASSWORD_LENGTH

\* C11 witness: a password of the largest length stored, all four classes
\* checked.
C11_Witness ==
    /\ last.generated
    /\ length = MAX_PASSWORD_LENGTH
    /\ Len(generated_password) = MAX_PASSWORD_LENGTH
    /\ Len(selected_sets) = 4

\* C12: a run of generate_password that stores no password leaves the stored
\* password, the length entry and the checkboxes as they were and shows
\* exactly one error box.
C12_RejectionShowsOneError ==
    [][(last'.handler = "generate_password" /\ ~last'.generated)
       => /\ generated_password' = generated_password
          /\ password_length' = password_length
          /\ include' = include
          /\ Len(last'.boxes) = 1
          /\ last'.boxes[1].box = "showerror"]_vars

\* C16: while no password has been generated, copy_to_clipboard shows the
\* no-password error and completes no clipboard call; a generation stores a
\* non-empty password, a stored non-empty password stays non-empty, and once
\* one has been generated copy_to_clipboard goes on to the clipboard calls
\* (it shows the success box, or the clipboard error if one of them raises).
C16_CopyNeedsAPassword ==
    [][/\ (last'.handler = "copy_to_clipboard" /\ pw_pc = "idle")
          => /\ last'.boxes = <<ShowError("Error", ERROR_MESSAGE_NO_PASSWORD)>>
             /\ last'.clipboard = <<>>
       /\ (last'.handler = "copy_to_clipboard" /\ pw_pc = "returned")
          => /\ last'.boxes \in { <<ShowInfo("Success", SUCCESS_MESSAGE_COPY)>>,
                                  <<ShowError("Clipboard Error", ERROR_MESSAGE_CLIPBOARD)>> }
             /\ \A i \in DOMAIN last'.clipboard :
                   last'.clipboard[i].call = "clipboard_append"
                   => last'.clipboard[i].text = password
       /\ last'.generated => generated_password' # <<>>
       /\ generated_password # <<>> => generated_password' # <<>>]_vars

\* C16 witness: the stored password copied, all three calls on root
\* completed, after the checkboxes were all cleared.
C16_Witness ==
    /\ last.handler = "copy_to_clipboard"
    /\ Len(last.clipboard) = 3
    /\ last.clipboard[2].text = generated_password
    /\ generated_password # <<>>
    /\ CountChecked(include) = 0

\* The message of the first check that fails, in the order: empty, not a
\* positive decimal number, below max(8, n), above 128, no class, below n.
FirstFailure(text, pref) ==
    LET t == Strip(text)
        n == CountChecked(pref)
    IN IF t = <<>> THEN ERROR_MESSAGE_NO_LENGTH
       ELSE IF ~IsDecimalInteger(t) \/ ToInt(t) <= 0 THEN ERROR_MESSAGE_INVALID_LENGTH
       ELSE IF ToInt(t) < MIN_PASSWORD_LENGTH \/ ToInt(t) < n THEN ERROR_MESSAGE_MIN_LENGTH
       ELSE IF ToInt(t) > MAX_PASSWORD_LENGTH THEN ERROR_MESSAGE_TOO_LARGE
       ELSE IF n = 0 THEN ERROR_MESSAGE_NO_CHARSETS
       ELSE "none"

\* C17: generate_password shows the error of the first check that fails, in
\* that order, and nothing else; a non-empty length that is not a positive
\* decimal number gets the invalid-length error whatever is checked.
C17_FirstFailureIsReported ==
    last.handler = "generate_password"
    => last.boxes = IF FirstFailure(password_length, include) = "none" THEN <<>>
                    ELSE <<ShowError("Error", FirstFailure(password_length, include))>>

\* C18: the group-mismatch error is never shown, and a length that passed
\* the checks before it is at least max(8, n), hence at least n.
C18_GroupMismatchNeverShown ==
    /\ \A i \in DOMAIN last.boxes : last.boxes[i].message # ERROR_MESSAGE_GROUP_MISMATCH
    /\ last.generated
       => /\ length >= GetMinPasswordLength(include)
          /\ GetMinPasswordLength(include) >= CountChecked(include)

\* C18 witness: the check of line 127 passed with the smallest length and
\* the largest number of classes.
C18_Witness ==
    /\ last.generated
    /\ CountChecked(include) = 4
    /\ length = MIN_PASSWORD_LENGTH

====
